---------------------------- MODULE Spec2Model ----------------------------
(***************************************************************************)
(* podlet: the [Unit] section of a quadlet file (src/cli/unit.rs) and the  *)
(* file reference of `podlet kube play` (src/cli/kube.rs).                 *)
(*                                                                         *)
(* Two specifications share the module:                                    *)
(*   Spec      a Unit built from command-line flags, extended by           *)
(*             add_dependencies and written out by Display::fmt;           *)
(*   SpecKube  a FILE argument parsed by File::from_str and named by       *)
(*             Kube::name.                                                 *)
(*                                                                         *)
(* Rust Strings are TLA+ strings; TLC evaluates Len, \o and SubSeq on      *)
(* them, so the character at position i of str is SubSeq(str, i, i).       *)
(* Option<T> is a sequence of length at most one: None is << >>, Some(x)   *)
(* is <<x>>.  Vec<T> is a sequence.                                        *)
(***************************************************************************)
EXTENDS Integers, Sequences, FiniteSets, TLC

VARIABLES
    unit,          \* the Unit value (self)
    unit0,         \* the Unit as it was constructed from the flags
    depends_on,    \* the argument of the latest add_dependencies call
    old_requires,  \* self.requires when the latest add_dependencies call began
    calls,         \* number of add_dependencies calls so far
    total,         \* number of identifiers passed to add_dependencies so far
    out,           \* the lines written by the latest Display::fmt call
    rendered,      \* the Unit the latest Display::fmt call was given
    s,             \* the FILE argument of `podlet kube play`
    file,          \* Option<File>: the result of File::from_str(s)
    kube_name      \* Option<String>: the result of Kube::name

vars == <<unit, unit0, depends_on, old_requires, calls, total, out, rendered,
          s, file, kube_name>>

unitVars == <<unit, unit0, depends_on, old_requires, calls, total, out, rendered>>
kubeVars == <<s, file, kube_name>>

----------------------------------------------------------------------------
(* Bounds *)

\* longest list a flag of the Unit is given at construction
MaxLen == 2
\* number of add_dependencies calls explored
MaxCalls == 2
\* longest FILE argument explored
MaxStr == 6

----------------------------------------------------------------------------
(* Helpers *)

None == << >>
Some(x) == <<x>>

\* all sequences over S of length at most n
RECURSIVE ListsOf(_, _)
ListsOf(S, n) ==
    IF n = 0 THEN {<< >>}
    ELSE LET shorter == ListsOf(S, n - 1)
         IN shorter \cup {Append(l, x) : l \in {m \in shorter : Len(m) = n - 1}, x \in S}

IsPrefix(p, q) == Len(p) <= Len(q) /\ SubSeq(q, 1, Len(p)) = p

\* slice::join(" ")
RECURSIVE JoinFrom(_, _, _)
JoinFrom(v, sep, i) ==
    IF i > Len(v) THEN ""
    ELSE IF i = Len(v) THEN v[i]
    ELSE v[i] \o sep \o JoinFrom(v, sep, i + 1)

join(v, sep) == JoinFrom(v, sep, 1)

----------------------------------------------------------------------------
(* src/cli/unit.rs *)

\* #[derive(Default)]: no description, four empty vectors
UnitDefault ==
    [description |-> None, wants |-> << >>, requires |-> << >>,
     before |-> << >>, after |-> << >>]

\* values the flags are given
Descriptions == {"", "svc"}
Names == {"x.service"}

\* the Units clap can build from the flags
Units ==
    [description : {None} \cup {Some(d) : d \in Descriptions},
     wants : ListsOf(Names, MaxLen), requires : ListsOf(Names, MaxLen),
     before : ListsOf(Names, MaxLen), after : ListsOf(Names, MaxLen)]

\* is_empty with the comparison of `after` left out
is_empty_without_after(u) ==
    /\ u.description = None
    /\ u.wants = << >>
    /\ u.requires = << >>
    /\ u.before = << >>

\* Unit::is_empty: *self == Self::default()
is_empty(u) == u = UnitDefault

\* docker_compose_types::DependsOnOptions
Ids == {"a", "b"}
Conditions == {"service_started", "service_healthy"}
Simple(vec) == [kind |-> "Simple", vec |-> vec]
Conditional(map) == [kind |-> "Conditional", map |-> map]

DependsOnInputs ==
    {Simple(v) : v \in {<< >>, <<"a">>, <<"a", "b">>, <<"b", "a">>, <<"a", "a">>}}
    \cup {Conditional(m) : m \in {[k \in {"a"} |-> "service_healthy"],
                                  [k \in Ids |-> "service_started"],
                                  [k \in Ids |-> "service_healthy"]}}

\* the orders map.into_keys() may yield the keys of a map in
KeyOrders(map) ==
    {v \in ListsOf(DOMAIN map, Cardinality(DOMAIN map)) :
        /\ Len(v) = Cardinality(DOMAIN map)
        /\ \A i, j \in 1..Len(v) : i # j => v[i] # v[j]}

\* the match of add_dependencies: the identifiers, as a vector
DependsOnVecs(d) ==
    IF d.kind = "Simple" THEN {d.vec} ELSE KeyOrders(d.map)

\* the identifiers as they are, the suffix left out
Unsuffixed(vec) == vec

\* .map(|dependency| dependency + ".service")
Suffixed(vec) == [i \in 1..Len(vec) |-> vec[i] \o ".service"]

\* extend that skips the entries requires already holds
RECURSIVE ExtendedOnce(_, _)
ExtendedOnce(u, vec) ==
    IF vec = << >> THEN u
    ELSE LET e == Head(vec) \o ".service"
         IN ExtendedOnce(
                IF \E i \in 1..Len(u.requires) : u.requires[i] = e THEN u
                ELSE [u EXCEPT !.requires = Append(@, e)],
                Tail(vec))

\* self.requires.extend(...)
Extended(u, vec) == [u EXCEPT !.requires = @ \o Suffixed(vec)]

\* Unit::add_dependencies
add_dependencies(d) ==
    /\ calls < MaxCalls
    /\ \E vec \in DependsOnVecs(d) : unit' = Extended(unit, vec)
    /\ depends_on' = Some(d)
    /\ old_requires' = unit.requires
    /\ calls' = calls + 1
    /\ total' = total + (IF d.kind = "Simple" THEN Len(d.vec)
                         ELSE Cardinality(DOMAIN d.map))
    /\ UNCHANGED <<unit0, out, rendered, kubeVars>>

\* impl Display for Unit: the lines fmt writes, in order
fmt(u) ==
    <<"[Unit]">>
    \o (IF u.description # None
        THEN <<"Description=" \o u.description[1]>> ELSE << >>)
    \o (IF u.wants # << >>
        THEN <<"Wants=" \o join(u.wants, " ")>> ELSE << >>)
    \o (IF u.requires # << >>
        THEN <<"Requires=" \o join(u.requires, " ")>> ELSE << >>)
    \o (IF u.before # << >>
        THEN <<"Before=" \o join(u.before, " ")>> ELSE << >>)
    \o (IF u.before # << >>
        THEN <<"After=" \o join(u.after, " ")>> ELSE << >>)

\* a render into the buffer of the render before it, never cleared
DisplayAppending ==
    /\ out' = Some((IF out = None THEN << >> ELSE out[1]) \o fmt(unit))
    /\ rendered' = Some(unit)
    /\ UNCHANGED <<unit, unit0, depends_on, old_requires, calls, total, kubeVars>>

\* a call of Display::fmt (to_string, print): takes &self
Display ==
    /\ out' = Some(fmt(unit))
    /\ rendered' = Some(unit)
    /\ UNCHANGED <<unit, unit0, depends_on, old_requires, calls, total, kubeVars>>

----------------------------------------------------------------------------
(* Specification of the Unit *)

Init ==
    /\ unit \in Units
    /\ unit0 = unit
    /\ depends_on = None
    /\ old_requires = << >>
    /\ calls = 0
    /\ total = 0
    /\ out = None
    /\ rendered = None
    /\ s = ""
    /\ file = None
    /\ kube_name = None

Next ==
    \/ \E d \in DependsOnInputs : add_dependencies(d)
    \/ Display

Spec == Init /\ [][Next]_vars

----------------------------------------------------------------------------
(* Strings *)

Char(str, i) == SubSeq(str, i, i)

StartsWith(str, p) == Len(str) >= Len(p) /\ SubSeq(str, 1, Len(p)) = p

\* the first position from `from` on that holds the character, or 0
IndexOf(str, c, from) ==
    LET hits == {i \in from..Len(str) : Char(str, i) = c}
    IN IF hits = {} THEN 0 ELSE CHOOSE i \in hits : \A j \in hits : i <= j

\* the last position that holds the character, or 0
LastIndexOf(str, c) ==
    LET hits == {i \in 1..Len(str) : Char(str, i) = c}
    IN IF hits = {} THEN 0 ELSE CHOOSE i \in hits : \A j \in hits : i >= j

\* str::split(c): the pieces between the separators, at least one
RECURSIVE SplitFrom(_, _, _)
SplitFrom(str, c, from) ==
    LET i == IndexOf(str, c, from)
    IN IF i = 0 THEN <<SubSeq(str, from, Len(str))>>
       ELSE <<SubSeq(str, from, i - 1)>> \o SplitFrom(str, c, i + 1)

Split(str, c) == SplitFrom(str, c, 1)

\* all strings over the characters of C of length at most n
RECURSIVE StringsOf(_, _)
StringsOf(C, n) ==
    IF n = 0 THEN {""}
    ELSE LET shorter == StringsOf(C, n - 1)
         IN shorter \cup {w \o c : w \in {v \in shorter : Len(v) = n - 1}, c \in C}

----------------------------------------------------------------------------
(* url::Url::parse, as File::from_str calls it (s.parse::<Url>()): the     *)
(* URL parser without a base URL, for inputs of lower-case letters,        *)
(* digits and the characters + - . / : ? #.  Percent-encoding, userinfo,   *)
(* IPv6 hosts, back-slashes and the file scheme are outside these inputs.  *)

Letters ==
    {"a", "b", "c", "d", "e", "f", "g", "h", "i", "j", "k", "l", "m",
     "n", "o", "p", "q", "r", "s", "t", "u", "v", "w", "x", "y", "z"}
Digits == {"0", "1", "2", "3", "4", "5", "6", "7", "8", "9"}
SchemeChars == Letters \cup Digits \cup {"+", "-", "."}
SpecialSchemes == {"http", "https", "ws", "wss", "ftp"}

\* the position of the ':' that ends a scheme, or 0 when str has no scheme
SchemeEnd(str) ==
    LET colon == IndexOf(str, ":", 1)
    IN IF /\ colon > 1
          /\ Char(str, 1) \in Letters
          /\ \A i \in 2..(colon - 1) : Char(str, i) \in SchemeChars
       THEN colon ELSE 0

Pop(segs) == IF segs = << >> THEN << >> ELSE SubSeq(segs, 1, Len(segs) - 1)

\* the path state: "." segments are dropped and ".." segments remove the
\* segment before them; either one, when last, leaves an empty last segment
RECURSIVE Walk(_, _, _)
Walk(segs, i, acc) ==
    IF i > Len(segs) THEN acc
    ELSE LET last == (i = Len(segs))
         IN IF segs[i] = ".."
            THEN Walk(segs, i + 1, IF last THEN Append(Pop(acc), "") ELSE Pop(acc))
            ELSE IF segs[i] = "."
            THEN Walk(segs, i + 1, IF last THEN Append(acc, "") ELSE acc)
            ELSE Walk(segs, i + 1, Append(acc, segs[i]))

\* the path of a URL from the text of a path that starts with '/'
NormalizePath(p) == "/" \o join(Walk(Split(SubSeq(p, 2, Len(p)), "/"), 1, << >>), "/")

SkipSlashes(str) ==
    LET rest == {i \in 1..Len(str) : Char(str, i) # "/"}
    IN IF rest = {} THEN ""
       ELSE SubSeq(str, CHOOSE i \in rest : \A j \in rest : i <= j, Len(str))

UrlErr(e) == [ok |-> FALSE, err |-> e]
UrlOk(scheme, host, path, query) ==
    [ok |-> TRUE,
     url |-> [scheme |-> scheme, host |-> host, path |-> path, query |-> query]]

\* host[:port] and the path after it
ParseAuthority(scheme, special, text, query) ==
    LET slash == IndexOf(text, "/", 1)
        authority == IF slash = 0 THEN text ELSE SubSeq(text, 1, slash - 1)
        pathText == IF slash = 0 THEN "" ELSE SubSeq(text, slash, Len(text))
        colon == IndexOf(authority, ":", 1)
        host == IF colon = 0 THEN authority ELSE SubSeq(authority, 1, colon - 1)
        port == IF colon = 0 THEN "" ELSE SubSeq(authority, colon + 1, Len(authority))
    IN IF host = "" /\ (special \/ colon # 0) THEN UrlErr("EmptyHost")
       ELSE IF \E i \in 1..Len(port) : Char(port, i) \notin Digits
       THEN UrlErr("InvalidPort")
       ELSE UrlOk(scheme, Some(host),
                  IF pathText = "" THEN (IF special THEN "/" ELSE "")
                  ELSE NormalizePath(pathText),
                  query)

UrlParse(str) ==
    LET colon == SchemeEnd(str)
    IN IF colon = 0 THEN UrlErr("RelativeUrlWithoutBase")
       ELSE
        LET scheme == SubSeq(str, 1, colon - 1)
            rest == SubSeq(str, colon + 1, Len(str))
            hash == IndexOf(rest, "#", 1)
            noFragment == IF hash = 0 THEN rest ELSE SubSeq(rest, 1, hash - 1)
            mark == IndexOf(noFragment, "?", 1)
            text == IF mark = 0 THEN noFragment ELSE SubSeq(noFragment, 1, mark - 1)
            query == IF mark = 0 THEN None
                     ELSE Some(SubSeq(noFragment, mark + 1, Len(noFragment)))
        IN IF scheme \in SpecialSchemes
           THEN ParseAuthority(scheme, TRUE, SkipSlashes(text), query)
           ELSE IF StartsWith(text, "//")
           THEN ParseAuthority(scheme, FALSE, SubSeq(text, 3, Len(text)), query)
           ELSE IF StartsWith(text, "/")
           THEN UrlOk(scheme, None, NormalizePath(text), query)
           ELSE UrlOk(scheme, None, text, query)

\* Url::path_segments: None for a path that does not start with '/'
path_segments(url) ==
    IF StartsWith(url.path, "/")
    THEN Some(Split(SubSeq(url.path, 2, Len(url.path)), "/"))
    ELSE None

----------------------------------------------------------------------------
(* std::path::Path, on a platform whose separator is '/' *)

\* Path::file_name: the last component, when it is a normal one
file_name(path) ==
    LET pieces == Split(path, "/")
        hasRoot == StartsWith(path, "/")
        kept == {i \in 1..Len(pieces) :
                    /\ pieces[i] # ""
                    /\ pieces[i] = "." => (i = 1 /\ ~hasRoot)}
    IN IF kept = {} THEN None
       ELSE LET last == pieces[CHOOSE i \in kept : \A j \in kept : i >= j]
            IN IF last \in {".", ".."} THEN None ELSE Some(last)

\* Path::file_stem: the file name up to its last '.', the whole name when
\* it has none or only a leading one
file_stem(path) ==
    LET name == file_name(path)
    IN IF name = None THEN None
       ELSE LET dot == LastIndexOf(name[1], ".")
            IN IF dot <= 1 THEN name ELSE Some(SubSeq(name[1], 1, dot - 1))

----------------------------------------------------------------------------
(* src/cli/kube.rs *)

\* enum File
Url(url) == [tag |-> "Url", url |-> url]
Path(path) == [tag |-> "Path", path |-> path]

\* from_str that drops the '/' a local path ends with
from_str_trimmed(str) ==
    LET parsed == UrlParse(str)
    IN IF parsed.ok THEN Url(parsed.url)
       ELSE IF Len(str) > 1 /\ Char(str, Len(str)) = "/"
       THEN Path(SubSeq(str, 1, Len(str) - 1))
       ELSE Path(str)

\* impl FromStr for File
from_str(str) ==
    LET parsed == UrlParse(str)
    IN IF parsed.ok THEN Url(parsed.url) ELSE Path(str)

\* File::name that cuts a Remote segment at its last '.', as file_stem does
File_name_last_dot(f) ==
    IF f.tag = "Url"
    THEN LET segments == path_segments(f.url)
         IN IF segments = None THEN None
            ELSE LET last == segments[1][Len(segments[1])]
                     dot == LastIndexOf(last, ".")
                 IN IF last = "" THEN None
                    ELSE IF dot = 0 THEN Some(last)
                    ELSE Some(SubSeq(last, 1, dot - 1))
    ELSE file_stem(f.path)

\* File::name
File_name(f) ==
    IF f.tag = "Url"
    THEN LET segments == path_segments(f.url)
         IN IF segments = None THEN None
            ELSE LET last == segments[1][Len(segments[1])]
                 IN IF last = "" THEN None ELSE Some(Split(last, ".")[1])
    ELSE file_stem(f.path)

\* Kube::name with unwrap_or_default in place of unwrap_or("pod")
Kube_name_or_default(f) ==
    LET n == File_name(f)
    IN IF n # None THEN n[1] ELSE ""

\* Kube::name
Kube_name(f) ==
    LET n == File_name(f)
    IN IF n # None THEN n[1] ELSE "pod"

\* clap parses the FILE argument
FromStr ==
    /\ file = None
    /\ file' = Some(from_str(s))
    /\ UNCHANGED <<s, kube_name, unitVars>>

\* a call of Kube::name
Name ==
    /\ file # None
    /\ kube_name = None
    /\ kube_name' = Some(Kube_name(file[1]))
    /\ UNCHANGED <<s, file, unitVars>>

----------------------------------------------------------------------------
(* Specification of the file reference *)

\* characters of the FILE arguments explored
Alphabet == {"a", ".", "/", ":", "?"}

InitKube ==
    /\ s \in StringsOf(Alphabet, MaxStr)
    /\ file = None
    /\ kube_name = None
    /\ unit = UnitDefault
    /\ unit0 = unit
    /\ depends_on = None
    /\ old_requires = << >>
    /\ calls = 0
    /\ total = 0
    /\ out = None
    /\ rendered = None

NextKube ==
    \/ FromStr
    \/ Name

SpecKube == InitKube /\ [][NextKube]_vars

----------------------------------------------------------------------------
(* Properties of the file reference *)

\* the last path segment of a Remote file, when its path has segments
LastSegment(f) ==
    LET segments == path_segments(f.url)
    IN IF segments = None THEN None ELSE Some(segments[1][Len(segments[1])])

\* C3: the default base name of a `kube play` resource is never the empty
\* string, whatever FILE argument it was parsed from.
C3_NameNeverEmpty ==
    kube_name # None => kube_name[1] # ""

\* C4: Kube::name is the name of the file when File::name gives one, and
\* the literal "pod" when it gives none.
C4_NameOrFallback ==
    /\ kube_name # None =>
         LET n == File_name(file[1])
         IN /\ Len(n) = 1 => kube_name[1] = n[1]
            /\ Len(n) = 0 => kube_name[1] = "pod"
    /\ Kube_name(from_str("pod.yaml")) = "pod"
    /\ Kube_name(from_str("https://example.com/")) = "pod"
    /\ Kube_name(from_str("https://example.com/test.yaml")) = "test"

C4_Witness ==
    /\ file # None
    /\ file[1].tag = "Url"
    /\ File_name(file[1]) = None
    /\ kube_name = Some("pod")

\* the strings the URL parser reads as a relative URL (one with no scheme)
IsRelativeUrl(str) == ~UrlParse(str).ok /\ UrlParse(str).err = "RelativeUrlWithoutBase"

\* C5 as stated: from_str answers Remote for every valid absolute or
\* relative URL, and Local with the raw string as path for anything else.
C5_RemoteForEveryUrl ==
    file # None =>
        IF UrlParse(s).ok \/ IsRelativeUrl(s)
        THEN file[1].tag = "Url"
        ELSE file[1] = Path(s)

\* C5 as amended: from_str always answers, Remote exactly for the strings
\* that parse as an absolute URL; every other string, a relative URL (one
\* with no scheme) included, is Local with the raw string as its path.
C5_RemoteIffAbsolute ==
    /\ from_str(s).tag \in {"Url", "Path"}
    /\ file # None =>
         /\ file[1].tag \in {"Url", "Path"}
         /\ file[1].tag = "Url" <=> UrlParse(s).ok
         /\ file[1].tag = "Path" => file[1].path = s
         /\ SchemeEnd(s) = 0 => file[1] = Path(s)

C5_Witness ==
    /\ s = "a/a.a"
    /\ IsRelativeUrl(s)
    /\ file = Some(Path("a/a.a"))

\* C6: the name of a Remote file is absent when its path has no segments
\* or an empty last segment, and otherwise the last segment up to its first
\* '.'; nothing but the last segment decides it.
C6_RemoteName ==
    /\ (file # None /\ file[1].tag = "Url") =>
         LET last == LastSegment(file[1])
             n == File_name(file[1])
         IN IF last = None \/ last = Some("")
            THEN n = None
            ELSE /\ n # None
                 /\ IndexOf(n[1], ".", 1) = 0
                 /\ \/ last[1] = n[1]
                    \/ StartsWith(last[1], n[1] \o ".")
    /\ File_name(from_str("https://example.com/test.yaml")) = Some("test")
    /\ File_name(from_str("https://example.com/dir.d/test")) = Some("test")
    /\ File_name(from_str("https://example.com/a.b.c?x.y#z")) = Some("a")
    /\ File_name(from_str("https://example.com/")) = None

C6_Witness ==
    /\ s = "a:/a.a"
    /\ file # None
    /\ file[1].tag = "Url"
    /\ LastSegment(file[1]) = Some("a.a")
    /\ File_name(file[1]) = Some("a")

----------------------------------------------------------------------------
(* Properties of the Unit *)

\* some line of the text begins with the key
HasLine(lines, key) == \E i \in 1..Len(lines) : StartsWith(lines[i], key)

\* the number of identifiers a dependency graph holds
GraphSize(d) == IF d.kind = "Simple" THEN Len(d.vec) ELSE Cardinality(DOMAIN d.map)

\* the lines the [Unit] section is documented to have: one per populated field
KeyLine(key, v) == IF Len(v) > 0 THEN <<key \o "=" \o join(v, " ")>> ELSE << >>

DocumentedLines(u) ==
    (IF Len(u.description) > 0 THEN <<"Description=" \o u.description[1]>> ELSE << >>)
    \o KeyLine("Wants", u.wants) \o KeyLine("Requires", u.requires)
    \o KeyLine("Before", u.before) \o KeyLine("After", u.after)

\* the positions of the text that hold the line
Positions(lines, line) == {i \in 1..Len(lines) : lines[i] = line}

\* C1: a rendered Unit has a line for a field only if the field is populated:
\* Description= only with a description, Wants=, Requires=, Before=, After=
\* only with a non-empty wants, requires, before, after.
C1_NoLineForEmptyField ==
    out # None =>
        LET u == rendered[1]
            lines == out[1]
        IN /\ HasLine(lines, "Description=") => u.description # None
           /\ HasLine(lines, "Wants=") => u.wants # << >>
           /\ HasLine(lines, "Requires=") => u.requires # << >>
           /\ HasLine(lines, "Before=") => u.before # << >>
           /\ HasLine(lines, "After=") => u.after # << >>

\* C2: a rendered Unit starts with the [Unit] header, and holds exactly one
\* line for every populated field, key=entries joined by spaces, in the
\* order Description, Wants, Requires, Before, After; a non-empty after
\* always gives an After= line.
C2_OneLinePerPopulatedField ==
    out # None =>
        LET u == rendered[1]
            lines == out[1]
            doc == DocumentedLines(u)
        IN /\ lines[1] = "[Unit]"
           /\ \A k \in 1..Len(doc) : Cardinality(Positions(lines, doc[k])) = 1
           /\ \A k, l \in 1..Len(doc) :
                 k < l => \A i \in Positions(lines, doc[k]), j \in Positions(lines, doc[l]) :
                            1 < i /\ i < j
           /\ u.after # << >> =>
                 \E i \in 1..Len(lines) : lines[i] = "After=" \o join(u.after, " ")

\* C7: is_empty is true exactly when there is no description and the four
\* lists are empty; a default Unit is empty, and one that add_dependencies
\* gave an identifier is not.
C7_IsEmptyIff ==
    /\ is_empty(unit) <=> /\ Len(unit.description) = 0
                          /\ Len(unit.wants) = 0
                          /\ Len(unit.requires) = 0
                          /\ Len(unit.before) = 0
                          /\ Len(unit.after) = 0
    /\ is_empty(UnitDefault)
    /\ (depends_on # None /\ GraphSize(depends_on[1]) > 0) => ~is_empty(unit)

C7_Witness ==
    /\ is_empty(unit0)
    /\ depends_on # None
    /\ Len(unit.requires) = 1
    /\ ~is_empty(unit)

\* C8: one add_dependencies call appends to requires, after the entries
\* already there, one entry per identifier, the identifier followed by
\* ".service": in list order for a flat list, one per key for a mapping.
C8_AppendsSuffixed ==
    depends_on # None =>
        LET d == depends_on[1]
            n == Len(old_requires)
            added == SubSeq(unit.requires, n + 1, Len(unit.requires))
        IN /\ IsPrefix(old_requires, unit.requires)
           /\ Len(added) = GraphSize(d)
           /\ d.kind = "Simple" =>
                 \A i \in 1..Len(d.vec) : added[i] = d.vec[i] \o ".service"
           /\ d.kind = "Conditional" =>
                 {added[i] : i \in 1..Len(added)} = {k \o ".service" : k \in DOMAIN d.map}

C8_Witness ==
    /\ depends_on = Some(Simple(<<"a", "b">>))
    /\ old_requires = <<"x.service">>
    /\ unit.requires = <<"x.service", "a.service", "b.service">>

\* C9: add_dependencies only appends: description, wants, before and after
\* keep their values, the original requires stays a prefix of requires, and
\* requires grows by the number of identifiers passed, duplicates included;
\* the call is possible for every graph.
C9_AppendOnly ==
    /\ unit.description = unit0.description
    /\ unit.wants = unit0.wants
    /\ unit.before = unit0.before
    /\ unit.after = unit0.after
    /\ IsPrefix(unit0.requires, unit.requires)
    /\ Len(unit.requires) = Len(unit0.requires) + total
    /\ calls < MaxCalls => \A d \in DependsOnInputs : ENABLED add_dependencies(d)

C9_Witness ==
    /\ calls = 2
    /\ unit0.requires = <<"x.service">>
    /\ unit.requires =
          <<"x.service", "a.service", "b.service", "a.service", "b.service">>

=============================================================================
